---- MODULE Spec2Model ----
(***************************************************************************)
(* A model of scripts/generate_index.py: the PEP 503 "simple" index        *)
(* generator.  Text is modelled character by character: a Python str is a  *)
(* sequence of one-character strings, so that lowercasing, replacement,    *)
(* HTML escaping, comparison and concatenation are computed, not assumed.  *)
(* A Python dict with optional keys (a wheel record) is a TLA+ record      *)
(* whose DOMAIN holds exactly the keys present; an insertion-ordered dict  *)
(* (the packages map) is a sequence of [name, data] entries with pairwise  *)
(* distinct names.                                                         *)
(***************************************************************************)
EXTENDS Integers, Sequences, FiniteSets, TLC

VARIABLES
    pc,            \* position of the running call
    name,          \* normalize_name: its argument
    package_name,  \* generate_package_index: its first argument
    wheels,        \* generate_package_index: its second argument
    wheels2,       \* generate_package_index: the same wheels, reordered, for the second call
    packages,      \* generate_root_index: its argument; main: data.get('packages', {})
    result,        \* value returned by the (first) call
    result2,       \* value returned by the second call
    manifest,      \* main: the packages.json file (absent, malformed, or its JSON value)
    fs,            \* main: the index directory tree, [dirs, files]
    todo,          \* main: entries of packages.items() not yet iterated
    status         \* main: the exit status of the process, NoStatus while running

vars == << pc, name, package_name, wheels, wheels2, packages, result, result2,
           manifest, fs, todo, status >>

-----------------------------------------------------------------------------
(* Bounds of the model.                                                    *)

MaxNameLen == 3
MaxWheels == 2
MaxRootPackages == 3
MaxPackages == 2

-----------------------------------------------------------------------------
(* Python str primitives.                                                  *)

\* The printable ASCII characters in code point order, from U+0020.  The grave
\* accent cannot be written in a TLA+ string; its place is held by "U+0060",
\* which is no character of any modelled text.
Ascii ==
    << " ", "!", "\"", "#", "$", "%", "&", "'", "(", ")", "*", "+", ",", "-",
       ".", "/", "0", "1", "2", "3", "4", "5", "6", "7", "8", "9", ":", ";",
       "<", "=", ">", "?", "@", "A", "B", "C", "D", "E", "F", "G", "H", "I",
       "J", "K", "L", "M", "N", "O", "P", "Q", "R", "S", "T", "U", "V", "W",
       "X", "Y", "Z", "[", "\\", "]", "^", "_", "U+0060", "a", "b", "c", "d", "e",
       "f", "g", "h", "i", "j", "k", "l", "m", "n", "o", "p", "q", "r", "s",
       "t", "u", "v", "w", "x", "y", "z", "{", "|", "}", "~" >>

\* ord(c) of a printable ASCII character; str comparison compares code points.
Ord(c) == 31 + (CHOOSE i \in 1..Len(Ascii) : Ascii[i] = c)

\* str.lower() on one character (ASCII letters only; others are unchanged).
lower_char(c) ==
    IF Ord("A") <= Ord(c) /\ Ord(c) <= Ord("Z")
    THEN Ascii[Ord(c) + (Ord("a") - Ord("A")) - 31]
    ELSE c

\* s.lower()
str_lower(s) == [i \in 1..Len(s) |-> lower_char(s[i])]

\* s.replace(old, new), for a one-character old and any str new.
RECURSIVE str_replace(_, _, _)
str_replace(s, old, new) ==
    IF s = << >> THEN << >>
    ELSE (IF Head(s) = old THEN new ELSE << Head(s) >>)
         \o str_replace(Tail(s), old, new)

\* a < b on str: lexicographic by code point, a proper prefix is smaller.
RECURSIVE str_less(_, _)
str_less(a, b) ==
    IF a = << >> THEN b # << >>
    ELSE IF b = << >> THEN FALSE
    ELSE IF Head(a) = Head(b) THEN str_less(Tail(a), Tail(b))
    ELSE Ord(Head(a)) < Ord(Head(b))

\* html.escape(s) with its default quote=True: & first, then < > " '.
escape(s) ==
    LET s1 == str_replace(s, "&", << "&", "a", "m", "p", ";" >>)
        s2 == str_replace(s1, "<", << "&", "l", "t", ";" >>)
        s3 == str_replace(s2, ">", << "&", "g", "t", ";" >>)
        s4 == str_replace(s3, "\"", << "&", "q", "u", "o", "t", ";" >>)
    IN  str_replace(s4, "'", << "&", "#", "x", "2", "7", ";" >>)

\* All str values over alphabet A of length at most n.
StringsUpTo(A, n) == UNION { [1..k -> A] : k \in 0..n }

-----------------------------------------------------------------------------
(* normalize_name                                                          *)

\* A mutation of normalize_name: the second replace targets "_" instead of "-".
normalize_name_swapped(s) ==
    str_replace(str_replace(str_lower(s), "_", << "-" >>), ".", << "_" >>)

normalize_name(s) ==
    str_replace(str_replace(str_lower(s), "_", << "-" >>), ".", << "-" >>)

\* PEP 503's normalization, re.sub(r"[-_.]+", "-", name).lower(): the reference
\* the docstring of normalize_name names.
Pep503Separators == { "-", "_", "." }

RECURSIVE Pep503SkipRun(_)
Pep503SkipRun(s) ==
    IF s # << >> /\ Head(s) \in Pep503Separators THEN Pep503SkipRun(Tail(s)) ELSE s

RECURSIVE Pep503Collapse(_)
Pep503Collapse(s) ==
    IF s = << >> THEN << >>
    ELSE IF Head(s) \in Pep503Separators
         THEN << "-" >> \o Pep503Collapse(Pep503SkipRun(Tail(s)))
         ELSE << Head(s) >> \o Pep503Collapse(Tail(s))

Pep503Normalized(s) == str_lower(Pep503Collapse(s))

-----------------------------------------------------------------------------
(* Values of the variables a specification does not use.                   *)

NoStatus == "running"
NoManifest == [kind |-> "absent"]
NoFs == [dirs |-> {}, files |-> << >>]

-----------------------------------------------------------------------------
(* SpecNormalize: normalize_name applied to a name, then to its own result *)

NameAlphabet == { "A", "a", "_", ".", "-" }
Names == StringsUpTo(NameAlphabet, MaxNameLen)

InitNormalize ==
    /\ pc = "normalize"
    /\ name \in Names
    /\ package_name = << >>
    /\ wheels = << >>
    /\ wheels2 = << >>
    /\ packages = << >>
    /\ result = << >>
    /\ result2 = << >>
    /\ manifest = NoManifest
    /\ fs = NoFs
    /\ todo = << >>
    /\ status = NoStatus

Normalize ==
    /\ pc = "normalize"
    /\ result' = normalize_name(name)
    /\ pc' = "renormalize"
    /\ UNCHANGED << name, package_name, wheels, wheels2, packages, result2, manifest, fs,
                    todo, status >>

Renormalize ==
    /\ pc = "renormalize"
    /\ result2' = normalize_name(result)
    /\ pc' = "done"
    /\ UNCHANGED << name, package_name, wheels, wheels2, packages, result, manifest, fs,
                    todo, status >>

NextNormalize == Normalize \/ Renormalize

SpecNormalize == InitNormalize /\ [][NextNormalize]_vars

\* C7: normalize_name is idempotent: normalizing a normalized name changes nothing.
C7_Idempotent == pc = "done" => result2 = result

\* A name with an upper-case letter and both replaced separators was normalized twice.
C7_Witness ==
    /\ pc = "done"
    /\ name = << "A", "_", "." >>
    /\ result = << "a", "-", "-" >>

\* C8: normalize_name returns the PEP 503 normalized name of its argument.
C8_MatchesPep503 == pc # "normalize" => result = Pep503Normalized(name)

-----------------------------------------------------------------------------
(* generate_package_index                                                  *)

\* w.get(key, '')
wheel_get(w, key) == IF key \in DOMAIN w THEN w[key] ELSE << >>

\* key=lambda w: (w.get('upload_date', ''), w['filename'])
sort_key(w) == << wheel_get(w, "upload_date"), w.filename >>

\* k1 < k2 on 2-tuples of str
key_less(k1, k2) ==
    \/ str_less(k1[1], k2[1])
    \/ k1[1] = k2[1] /\ str_less(k1[2], k2[2])

\* One insertion of a stable descending sort: x goes after every element of the
\* descending sequence s whose key is greater than or equal to its own.
insert_reverse(s, x) ==
    LET k == Cardinality({ i \in 1..Len(s) : ~key_less(sort_key(s[i]), sort_key(x)) })
    IN  SubSeq(s, 1, k) \o << x >> \o SubSeq(s, k + 1, Len(s))

\* The ascending counterpart (what sorted does without reverse=True).
insert_forward(s, x) ==
    LET k == Cardinality({ i \in 1..Len(s) : ~key_less(sort_key(x), sort_key(s[i])) })
    IN  SubSeq(s, 1, k) \o << x >> \o SubSeq(s, k + 1, Len(s))

RECURSIVE sorted_reverse_from(_, _)
sorted_reverse_from(done, rest) ==
    IF rest = << >> THEN done
    ELSE sorted_reverse_from(insert_reverse(done, Head(rest)), Tail(rest))

RECURSIVE sorted_forward_from(_, _)
sorted_forward_from(done, rest) ==
    IF rest = << >> THEN done
    ELSE sorted_forward_from(insert_forward(done, Head(rest)), Tail(rest))

\* A mutation of sorted_wheels: reverse=True is dropped.
sorted_wheels_ascending(ws) == sorted_forward_from(<< >>, ws)

\* A mutation of sorted_wheels: the list is iterated as given.
sorted_wheels_unsorted(ws) == ws

\* sorted(wheels, key=..., reverse=True): descending by key, and stable (wheels
\* with equal keys keep their input order, also under reverse=True).
sorted_wheels(ws) == sorted_reverse_from(<< >>, ws)

\* The literal parts of the f-strings.
PackageHead1 ==
    << "<", "!", "D", "O", "C", "T", "Y", "P", "E", " ", "h", "t", "m", "l",
       ">", "\n", "<", "h", "t", "m", "l", ">", "\n", "<", "h", "e", "a", "d",
       ">", "\n", " ", " ", " ", " ", "<", "m", "e", "t", "a", " ", "c", "h",
       "a", "r", "s", "e", "t", "=", "\"", "u", "t", "f", "-", "8", "\"", ">",
       "\n", " ", " ", " ", " ", "<", "t", "i", "t", "l", "e", ">", "L", "i",
       "n", "k", "s", " ", "f", "o", "r", " " >>

PackageHead2 ==
    << "<", "/", "t", "i", "t", "l", "e", ">", "\n", "<", "/", "h", "e", "a",
       "d", ">", "\n", "<", "b", "o", "d", "y", ">", "\n", " ", " ", " ", " ",
       "<", "h", "1", ">", "L", "i", "n", "k", "s", " ", "f", "o", "r", " " >>

PackageHead3 ==
    << "<", "/", "h", "1", ">", "\n" >>

Foot ==
    << "<", "/", "b", "o", "d", "y", ">", "\n", "<", "/", "h", "t", "m", "l",
       ">", "\n" >>

AnchorOpen ==
    << " ", " ", " ", " ", "<", "a", " ", "h", "r", "e", "f", "=", "\"" >>

AnchorMid ==
    << "\"", ">" >>

AnchorClose ==
    << "<", "/", "a", ">", "<", "b", "r", ">", "\n" >>

HashPrefix ==
    << "#", "s", "h", "a", "2", "5", "6", "=" >>

\* A mutation of hash_suffix: the fragment is appended whatever sha256 holds.
hash_suffix_always(w) == HashPrefix \o wheel_get(w, "sha256")

\* hash_suffix = f"#sha256={sha256}" if sha256 else ""
hash_suffix(w) ==
    LET sha256 == wheel_get(w, "sha256")
    IN  IF sha256 # << >> THEN HashPrefix \o sha256 ELSE << >>

\* f'    <a href="{escape(url)}{hash_suffix}">{escape(filename)}</a><br>\n'
wheel_anchor(w) ==
    AnchorOpen \o escape(w.url) \o hash_suffix(w) \o AnchorMid
    \o escape(w.filename) \o AnchorClose

RECURSIVE wheel_anchors(_)
wheel_anchors(ws) ==
    IF ws = << >> THEN << >> ELSE wheel_anchor(Head(ws)) \o wheel_anchors(Tail(ws))

generate_package_index(pn, ws) ==
    PackageHead1 \o escape(pn) \o PackageHead2 \o escape(pn) \o PackageHead3
    \o wheel_anchors(sorted_wheels(ws)) \o Foot

-----------------------------------------------------------------------------
(* Reading a generated document back: its lines, and the href and link     *)
(* text of each anchor line.  The link text is escaped by both generators, *)
(* so it holds no ">", and the last "> of an anchor line is the one the    *)
(* f-string wrote between href and link text.                              *)

\* The lines of a document, each without its closing "\n" (every line the
\* generators write ends with one).
SplitLines(s) ==
    LET nl      == { i \in 1..Len(s) : s[i] = "\n" }
        nth(k)  == CHOOSE i \in nl : Cardinality({ j \in nl : j < i }) = k - 1
        from(k) == IF k = 1 THEN 1 ELSE nth(k - 1) + 1
    IN  [k \in 1..Cardinality(nl) |-> SubSeq(s, from(k), nth(k) - 1)]

StartsWith(s, p) == Len(s) >= Len(p) /\ SubSeq(s, 1, Len(p)) = p

EndsWith(s, p) == Len(s) >= Len(p) /\ SubSeq(s, Len(s) - Len(p) + 1, Len(s)) = p

AnchorEnd == SubSeq(AnchorClose, 1, Len(AnchorClose) - 1)

IsAnchorLine(l) == StartsWith(l, AnchorOpen) /\ EndsWith(l, AnchorEnd)

ParseAnchor(l) ==
    LET inner == SubSeq(l, Len(AnchorOpen) + 1, Len(l) - Len(AnchorEnd))
        mids  == { i \in 1..(Len(inner) - 1) : SubSeq(inner, i, i + 1) = AnchorMid }
        k     == CHOOSE i \in mids : \A j \in mids : j <= i
    IN  [href |-> SubSeq(inner, 1, k - 1), text |-> SubSeq(inner, k + 2, Len(inner))]

Anchors(html) ==
    LET ls == SelectSeq(SplitLines(html), IsAnchorLine)
    IN  [i \in 1..Len(ls) |-> ParseAnchor(ls[i])]

\* The text a line holds between a given opening and closing tag.
Between(l, open, close) == SubSeq(l, Len(open) + 1, Len(l) - Len(close))

\* s holds no raw <, > or ", and each & of s begins one of html.escape's entities.
Entities ==
    { << "&", "a", "m", "p", ";" >>, << "&", "l", "t", ";" >>, << "&", "g", "t", ";" >>,
      << "&", "q", "u", "o", "t", ";" >>, << "&", "#", "x", "2", "7", ";" >> }

NoRawMarkup(s) ==
    \A i \in 1..Len(s) :
        /\ s[i] \notin { "<", ">", "\"" }
        /\ s[i] = "&" => \E e \in Entities : StartsWith(SubSeq(s, i, Len(s)), e)

-----------------------------------------------------------------------------
(* SpecPackageIndex: generate_package_index applied to a wheel list, then  *)
(* to a reordering of the same list.                                       *)

PackageNames == { << "p" >>, << "<", "&" >> }

\* Wheel records: a filename that is a proper prefix of another, equal and
\* different dates, an absent and an empty upload_date, an absent, an empty and a
\* non-empty sha256, text that needs escaping, two wheels with the same sort key
\* and different URLs, and two that differ only in an absent against an empty sha256.
WheelChoices ==
    { [filename |-> << "a" >>, url |-> << "u" >>, sha256 |-> << "c" >>,
       upload_date |-> << "1" >>],
      [filename |-> << "a", "b" >>, url |-> << "u" >>, upload_date |-> << "1" >>],
      [filename |-> << "a", "b" >>, url |-> << "u" >>, sha256 |-> << >>,
       upload_date |-> << "1" >>],
      [filename |-> << "a" >>, url |-> << "v", "&" >>, sha256 |-> << >>,
       upload_date |-> << "2" >>],
      [filename |-> << "a", "<" >>, url |-> << "u" >>, sha256 |-> << "\"", ">" >>],
      [filename |-> << "a" >>, url |-> << "v", "&" >>, upload_date |-> << "1" >>],
      [filename |-> << "b" >>, url |-> << "u" >>, sha256 |-> << "c" >>,
       upload_date |-> << >>] }

WheelLists == UNION { [1..k -> WheelChoices] : k \in 0..MaxWheels }

Reordered(ws, p) == [i \in 1..Len(ws) |-> ws[p[i]]]

InitPackageIndex ==
    /\ pc = "generate"
    /\ name = << >>
    /\ package_name \in PackageNames
    /\ wheels \in WheelLists
    /\ wheels2 = << >>
    /\ packages = << >>
    /\ result = << >>
    /\ result2 = << >>
    /\ manifest = NoManifest
    /\ fs = NoFs
    /\ todo = << >>
    /\ status = NoStatus

GeneratePackageIndex ==
    /\ pc = "generate"
    /\ result' = generate_package_index(package_name, wheels)
    /\ pc' = "regenerate"
    /\ UNCHANGED << name, package_name, wheels, wheels2, packages, result2,
                    manifest, fs, todo, status >>

RegeneratePackageIndex ==
    /\ pc = "regenerate"
    /\ \E p \in Permutations(1..Len(wheels)) :
           /\ wheels2' = Reordered(wheels, p)
           /\ result2' = generate_package_index(package_name, wheels2')
    /\ pc' = "done"
    /\ UNCHANGED << name, package_name, wheels, packages, result, manifest, fs,
                    todo, status >>

NextPackageIndex == GeneratePackageIndex \/ RegeneratePackageIndex

SpecPackageIndex == InitPackageIndex /\ [][NextPackageIndex]_vars

\* What the claims say of one wheel: its sort pair, its href, its link text.
ClaimedPair(w) ==
    << IF "upload_date" \in DOMAIN w THEN w.upload_date ELSE << >>, w.filename >>

PairLess(a, b) == str_less(a[1], b[1]) \/ (a[1] = b[1] /\ str_less(a[2], b[2]))

HasSha256(w) == "sha256" \in DOMAIN w /\ w.sha256 # << >>

ClaimedHref(w) ==
    IF HasSha256(w) THEN escape(w.url) \o HashPrefix \o w.sha256 ELSE escape(w.url)

Generated == pc \in { "regenerate", "done" }

TitleOpen == << " ", " ", " ", " ", "<", "t", "i", "t", "l", "e", ">" >>

TitleClose == << "<", "/", "t", "i", "t", "l", "e", ">" >>

HeadingOpen == << " ", " ", " ", " ", "<", "h", "1", ">" >>

HeadingClose == << "<", "/", "h", "1", ">" >>

EscapedDocument(html) ==
    LET ls == SplitLines(html)
        a  == Anchors(html)
    IN  /\ \A i \in 1..Len(ls) :
               /\ StartsWith(ls[i], TitleOpen) /\ EndsWith(ls[i], TitleClose)
                      => NoRawMarkup(Between(ls[i], TitleOpen, TitleClose))
               /\ StartsWith(ls[i], HeadingOpen) /\ EndsWith(ls[i], HeadingClose)
                      => NoRawMarkup(Between(ls[i], HeadingOpen, HeadingClose))
        /\ \A i \in 1..Len(a) : NoRawMarkup(a[i].href) /\ NoRawMarkup(a[i].text)

\* C4: everything the document takes from its input is HTML-escaped: the title,
\* the heading, and every anchor's href and link text hold no raw <, > or ", and
\* no & that does not begin an entity.
C4_AllInputEscaped == Generated => EscapedDocument(result)

\* C5 as claimed: the document is the same for every reordering of the wheel list.
C5_OrderIndependent == pc = "done" => result2 = result

\* Wheels of equal (upload_date or "", filename) also agree on the URL and on the
\* sha256 value (absent counting as empty).
SameOutputForEqualPairs ==
    \A i, j \in 1..Len(wheels) :
        ClaimedPair(wheels[i]) = ClaimedPair(wheels[j])
            => /\ wheels[i].url = wheels[j].url
               /\ HasSha256(wheels[i]) = HasSha256(wheels[j])
               /\ HasSha256(wheels[i]) => wheels[i].sha256 = wheels[j].sha256

\* C5 as amended: the document is the same for every reordering of a wheel list in
\* which wheels of equal (upload_date or "", filename) also agree on the URL and on
\* the sha256 value (absent counting as empty).
C5_OrderIndependentForDistinctPairs ==
    (pc = "done" /\ SameOutputForEqualPairs) => result2 = result

\* Two wheels given in the order opposite to their listing were regenerated in the
\* listing's order.
C5_Witness ==
    /\ pc = "done"
    /\ Len(wheels) = 2
    /\ SameOutputForEqualPairs
    /\ PairLess(ClaimedPair(wheels[1]), ClaimedPair(wheels[2]))
    /\ wheels2 = << wheels[2], wheels[1] >>
    /\ Len(Anchors(result2)) = 2

EndsWithFragment(href, w) == HasSha256(w) /\ EndsWith(href, HashPrefix \o w.sha256)

\* C9: a wheel's href is its escaped URL followed by #sha256=<value> exactly when
\* the wheel has a non-empty sha256, and its escaped URL alone otherwise.

C9_FragmentIffSha256 ==
    Generated =>
        LET a == Anchors(result)
        IN  /\ Len(a) = Len(wheels)
            /\ \A k \in 1..Len(wheels) :
                   \E i \in 1..Len(a) :
                       /\ a[i].text = escape(wheels[k].filename)
                       /\ IF HasSha256(wheels[k])
                          THEN a[i].href = escape(wheels[k].url) \o HashPrefix \o wheels[k].sha256
                          ELSE a[i].href = escape(wheels[k].url)

\* A wheel with a sha256 and a wheel with an empty one were listed, the first with
\* the fragment and the second with its URL alone.
C9_Witness ==
    /\ Generated
    /\ Len(wheels) = 2
    /\ HasSha256(wheels[1])
    /\ "sha256" \in DOMAIN wheels[2] /\ wheels[2].sha256 = << >>
    /\ \E i, j \in 1..2 :
           /\ i # j
           /\ EndsWithFragment(Anchors(result)[i].href, wheels[1])
           /\ Anchors(result)[j].href = escape(wheels[2].url)

-----------------------------------------------------------------------------
(* generate_root_index                                                     *)

RootHead ==
    << "<", "!", "D", "O", "C", "T", "Y", "P", "E", " ", "h", "t", "m", "l",
       ">", "\n", "<", "h", "t", "m", "l", ">", "\n", "<", "h", "e", "a", "d",
       ">", "\n", " ", " ", " ", " ", "<", "m", "e", "t", "a", " ", "c", "h",
       "a", "r", "s", "e", "t", "=", "\"", "u", "t", "f", "-", "8", "\"", ">",
       "\n", " ", " ", " ", " ", "<", "t", "i", "t", "l", "e", ">", "D", "G",
       "X", " ", "S", "p", "a", "r", "k", " ", "W", "h", "e", "e", "l", "s",
       " ", "-", " ", "S", "i", "m", "p", "l", "e", " ", "I", "n", "d", "e",
       "x", "<", "/", "t", "i", "t", "l", "e", ">", "\n", "<", "/", "h", "e",
       "a", "d", ">", "\n", "<", "b", "o", "d", "y", ">", "\n", " ", " ", " ",
       " ", "<", "h", "1", ">", "D", "G", "X", " ", "S", "p", "a", "r", "k",
       " ", "W", "h", "e", "e", "l", "s", " ", "-", " ", "S", "i", "m", "p",
       "l", "e", " ", "I", "n", "d", "e", "x", "<", "/", "h", "1", ">", "\n",
       " ", " ", " ", " ", "<", "p", ">", "P", "y", "t", "h", "o", "n", " ",
       "w", "h", "e", "e", "l", "s", " ", "b", "u", "i", "l", "t", " ", "f",
       "o", "r", " ", "a", "a", "r", "c", "h", "6", "4", " ", "D", "G", "X",
       " ", "s", "y", "s", "t", "e", "m", "s", "<", "/", "p", ">", "\n" >>

\* packages.keys(), in insertion order
package_keys(pk) == [i \in 1..Len(pk) |-> pk[i].name]

\* One insertion of a stable ascending sort of str values.
insert_name(s, x) ==
    LET k == Cardinality({ i \in 1..Len(s) : ~str_less(x, s[i]) })
    IN  SubSeq(s, 1, k) \o << x >> \o SubSeq(s, k + 1, Len(s))

RECURSIVE sorted_names_from(_, _)
sorted_names_from(done, rest) ==
    IF rest = << >> THEN done
    ELSE sorted_names_from(insert_name(done, Head(rest)), Tail(rest))

\* A mutation of sorted_packages: the keys are iterated in insertion order.
sorted_packages_as_inserted(pk) == package_keys(pk)

\* sorted_packages = sorted(packages.keys())
sorted_packages(pk) == sorted_names_from(<< >>, package_keys(pk))

\* f'    <a href="{normalized_name}/">{escape(package_name)}</a><br>\n'
root_anchor(pn) ==
    AnchorOpen \o normalize_name(pn) \o << "/" >> \o AnchorMid \o escape(pn)
    \o AnchorClose

RECURSIVE root_anchors(_)
root_anchors(ns) ==
    IF ns = << >> THEN << >> ELSE root_anchor(Head(ns)) \o root_anchors(Tail(ns))

generate_root_index(pk) == RootHead \o root_anchors(sorted_packages(pk)) \o Foot

-----------------------------------------------------------------------------
(* SpecRootIndex: generate_root_index applied to a packages map.           *)

\* Display names: upper case sorting before lower case, a proper prefix, a name
\* that normalization changes, and names that need escaping.
RootNames ==
    { << "a" >>, << "B" >>, << "a", "b" >>, << "A", "_", "b" >>, << "<", "&" >>,
      << "\"", ">" >> }

\* dicts of at most n entries with keys from names and values from data
PackageMaps(names, data, n) ==
    { pk \in UNION { [1..k -> [name : names, data : data]] : k \in 0..n } :
          \A i, j \in 1..Len(pk) : pk[i].name = pk[j].name => i = j }

InitRootIndex ==
    /\ pc = "generate"
    /\ name = << >>
    /\ package_name = << >>
    /\ wheels = << >>
    /\ wheels2 = << >>
    /\ packages \in PackageMaps(RootNames, { [wheels |-> << >>] }, MaxRootPackages)
    /\ result = << >>
    /\ result2 = << >>
    /\ manifest = NoManifest
    /\ fs = NoFs
    /\ todo = << >>
    /\ status = NoStatus

GenerateRootIndex ==
    /\ pc = "generate"
    /\ result' = generate_root_index(packages)
    /\ pc' = "done"
    /\ UNCHANGED << name, package_name, wheels, wheels2, packages, result2,
                    manifest, fs, todo, status >>

NextRootIndex == GenerateRootIndex

SpecRootIndex == InitRootIndex /\ [][NextRootIndex]_vars

\* C2: the root document holds exactly one anchor per display name, in ascending
\* order of the names under str comparison; each href is normalize_name(name)
\* followed by "/" and each link text the escaped name.  An empty map gives no anchor.
C2_RootAnchorsAscending ==
    pc = "done" =>
        LET a == Anchors(result)
            n == Len(packages)
        IN  /\ Len(a) = n
            /\ \E p \in Permutations(1..n) :
                   /\ \A i \in 1..n :
                          /\ a[i].href = normalize_name(packages[p[i]].name) \o << "/" >>
                          /\ a[i].text = escape(packages[p[i]].name)
                   /\ \A i \in 1..(n - 1) :
                          str_less(packages[p[i]].name, packages[p[i + 1]].name)

\* "a" and "A_b", inserted in that order, were listed as "A_b" linking to "a-b/"
\* and then "a".
C2_Witness ==
    /\ pc = "done"
    /\ Len(packages) = 2
    /\ packages[1].name = << "a" >>
    /\ packages[2].name = << "A", "_", "b" >>
    /\ Anchors(result)[1] = [href |-> << "a", "-", "b", "/" >>, text |-> << "A", "_", "b" >>]
    /\ Anchors(result)[2].text = << "a" >>

\* The empty map was rendered, without any anchor.
C2_WitnessEmpty == pc = "done" /\ packages = << >> /\ Anchors(result) = << >>

-----------------------------------------------------------------------------
(* main: the driver.  Each step is one effect on the file system or the    *)
(* end of the process; an uncaught exception ends the process with exit    *)
(* status 1, as does "return 1" through exit(main()).                      *)
(*                                                                         *)
(* The index tree is [dirs, files]: dirs holds the paths, relative to      *)
(* index_dir, of the directories that exist (the empty path is index_dir   *)
(* itself), and files maps a directory's path to the content of the        *)
(* index.html in it.  index_dir / normalized_name is the path              *)
(* normalized_name itself: the empty name gives index_dir, and a name with *)
(* an inner "/" a nested directory.                                        *)

\* The directory holding path p (index_dir for a single segment).
parent_dir(p) ==
    LET slashes == { i \in 1..Len(p) : p[i] = "/" }
    IN  IF slashes = {} THEN << >>
        ELSE SubSeq(p, 1, (CHOOSE i \in slashes : \A j \in slashes : j <= i) - 1)

\* Path.mkdir(exist_ok=True) succeeds when the directory exists or its parent does.
mkdir_succeeds(tree, p) == p \in tree.dirs \/ parent_dir(p) \in tree.dirs

\* with open(dir / "index.html", 'w') as f: f.write(html)
write_index(tree, p, html) == [tree EXCEPT !.files = (p :> html) @@ @]

\* package_data.get('wheels', [])
package_wheels(data) == IF "wheels" \in DOMAIN data THEN data.wheels ELSE << >>

\* if not packages_file.exists(): return 1
ManifestMissing ==
    /\ pc = "load"
    /\ manifest.kind = "absent"
    /\ status' = 1
    /\ pc' = "exit"
    /\ UNCHANGED << name, package_name, wheels, wheels2, packages, result, result2,
                    manifest, fs, todo >>

\* A mutation of ManifestUnparsable: index_dir is created before the manifest is read.
ManifestUnparsableAfterMkdir ==
    /\ pc = "load"
    /\ manifest.kind = "malformed"
    /\ fs' = [fs EXCEPT !.dirs = @ \cup { << >> }]
    /\ status' = 1
    /\ pc' = "exit"
    /\ UNCHANGED << name, package_name, wheels, wheels2, packages, result, result2,
                    manifest, todo >>

\* json.load(f) raises json.JSONDecodeError, which nothing catches.
ManifestUnparsable ==
    /\ pc = "load"
    /\ manifest.kind = "malformed"
    /\ status' = 1
    /\ pc' = "exit"
    /\ UNCHANGED << name, package_name, wheels, wheels2, packages, result, result2,
                    manifest, fs, todo >>

\* The file holds JSON that is no object (a list, say): data.get raises
\* AttributeError, which nothing catches.
ManifestNotObject ==
    /\ pc = "load"
    /\ manifest.kind = "json"
    /\ manifest.top # "object"
    /\ status' = 1
    /\ pc' = "exit"
    /\ UNCHANGED << name, package_name, wheels, wheels2, packages, result, result2,
                    manifest, fs, todo >>

\* packages = data.get('packages', {}); an empty map only prints a warning.
LoadPackages ==
    /\ pc = "load"
    /\ manifest.kind = "json"
    /\ manifest.top = "object"
    /\ packages' = IF "packages" \in DOMAIN manifest THEN manifest.packages ELSE << >>
    /\ pc' = "mkdir"
    /\ UNCHANGED << name, package_name, wheels, wheels2, result, result2, manifest,
                    fs, todo, status >>

\* index_dir.mkdir(exist_ok=True); its parent, the repository root, exists.
MakeIndexDir ==
    /\ pc = "mkdir"
    /\ fs' = [fs EXCEPT !.dirs = @ \cup { << >> }]
    /\ pc' = "root"
    /\ UNCHANGED << name, package_name, wheels, wheels2, packages, result, result2,
                    manifest, todo, status >>

\* root_html = generate_root_index(packages), written to index_dir / "index.html";
\* then the loop over packages.items() begins.
WriteRootIndex ==
    /\ pc = "root"
    /\ fs' = write_index(fs, << >>, generate_root_index(packages))
    /\ todo' = packages
    /\ pc' = "packages"
    /\ UNCHANGED << name, package_name, wheels, wheels2, packages, result, result2,
                    manifest, status >>

\* One iteration of the loop: package_dir.mkdir(exist_ok=True), then the package's
\* index is generated and written to package_dir / "index.html".
WritePackageIndex ==
    /\ pc = "packages"
    /\ todo # << >>
    /\ LET package_dir == normalize_name(Head(todo).name)
       IN  /\ mkdir_succeeds(fs, package_dir)
           /\ fs' = write_index([fs EXCEPT !.dirs = @ \cup { package_dir }], package_dir,
                                generate_package_index(Head(todo).name,
                                                       package_wheels(Head(todo).data)))
    /\ todo' = Tail(todo)
    /\ UNCHANGED << pc, name, package_name, wheels, wheels2, packages, result, result2,
                    manifest, status >>

\* package_dir.mkdir(exist_ok=True) raises FileNotFoundError (mkdir is called
\* without parents=True), which nothing catches.
PackageDirFails ==
    /\ pc = "packages"
    /\ todo # << >>
    /\ ~mkdir_succeeds(fs, normalize_name(Head(todo).name))
    /\ status' = 1
    /\ pc' = "exit"
    /\ UNCHANGED << name, package_name, wheels, wheels2, packages, result, result2,
                    manifest, fs, todo >>

\* The loop is over: return 0.
ReturnZero ==
    /\ pc = "packages"
    /\ todo = << >>
    /\ status' = 0
    /\ pc' = "exit"
    /\ UNCHANGED << name, package_name, wheels, wheels2, packages, result, result2,
                    manifest, fs, todo >>

\* Display names: two that normalize to the same directory, the empty name, a name
\* with an inner "/", and the name of that one's parent directory.
DriverNames ==
    { << "A", "_", "b" >>, << "a", "-", "b" >>, << >>, << "a", "/", "b" >>, << "a" >> }

\* Package entries: one without a 'wheels' key, one with a wheel.
DriverData ==
    { << >>,
      [wheels |-> << [filename |-> << "a", "<" >>, url |-> << "u" >>,
                      sha256 |-> << "c" >>] >>] }

\* The packages.json file: absent, not JSON, JSON that is no object, an object
\* without 'packages', or an object with a packages map.
Manifests ==
    { [kind |-> "absent"], [kind |-> "malformed"],
      [kind |-> "json", top |-> "array"], [kind |-> "json", top |-> "object"] }
    \cup { [kind |-> "json", top |-> "object", packages |-> pk] :
               pk \in PackageMaps(DriverNames, DriverData, MaxPackages) }

\* The index tree before the run: nothing, or a tree left by an earlier run.
Stale == << "s", "t", "a", "l", "e" >>

InitialTrees ==
    { NoFs,
      [dirs |-> { << >>, << "a" >> }, files |-> (<< >> :> Stale) @@ (<< "a" >> :> Stale)] }

Init ==
    /\ pc = "load"
    /\ name = << >>
    /\ package_name = << >>
    /\ wheels = << >>
    /\ wheels2 = << >>
    /\ packages = << >>
    /\ result = << >>
    /\ result2 = << >>
    /\ manifest \in Manifests
    /\ fs \in InitialTrees
    /\ todo = << >>
    /\ status = NoStatus

Next ==
    \/ ManifestMissing
    \/ ManifestUnparsable
    \/ ManifestNotObject
    \/ LoadPackages
    \/ MakeIndexDir
    \/ WriteRootIndex
    \/ WritePackageIndex
    \/ PackageDirFails
    \/ ReturnZero

Spec == Init /\ [][Next]_vars

\* C3: the exit status is non-zero when the manifest file is absent or is not
\* JSON, and zero in every other case.
C3_ExitStatus ==
    pc = "exit" => (status # 0 <=> manifest.kind \in { "absent", "malformed" })

\* C6: after a run that returns zero, index.html under index_dir holds the root
\* index of the packages map, and for every entry of the map the index.html
\* under its normalized name holds that entry's package index.
C6_TreeMatchesManifest ==
    (pc = "exit" /\ status = 0) =>
        /\ << >> \in DOMAIN fs.files
        /\ fs.files[<< >>] = generate_root_index(packages)
        /\ \A i \in 1..Len(packages) :
               LET package_dir == normalize_name(packages[i].name)
               IN  /\ package_dir \in DOMAIN fs.files
                   /\ fs.files[package_dir] =
                          generate_package_index(packages[i].name,
                                                 package_wheels(packages[i].data))

\* C10: a run whose manifest file is absent or is not JSON takes no step that
\* changes the index tree: no directory is created and no file written.
C10_AbortLeavesTreeUntouched ==
    [][manifest.kind \in { "absent", "malformed" } => fs' = fs]_vars

\* The run ended on a manifest that is not JSON, and index_dir still does not exist.
C10_Witness ==
    /\ pc = "exit"
    /\ status = 1
    /\ manifest.kind = "malformed"
    /\ fs = NoFs

====
